---- MODULE Spec2Model ----
(***************************************************************************)
(* Model of the image-generation relay (server.js and its deployment       *)
(* variant): the POST /api/generate-image handler with its three           *)
(* suspension points (fetch, text(), json()), the static middleware and    *)
(* the SPA fallback route.                                                 *)
(*                                                                         *)
(* JavaScript values are tagged records.  A string is a sequence of text   *)
(* pieces whose concatenation is the JavaScript string: free text from the *)
(* client, the environment or the provider is a sequence of single         *)
(* characters, a literal of the source is one piece.                       *)
(* req.body is what express.json() hands over: a JSON object.              *)
(***************************************************************************)
EXTENDS Integers, Sequences, FiniteSets, TLC

VARIABLES variant, env, pc, req, res, calls, upstream, responseData, threw,
          jsonCalled, sendFileErr

vars == <<variant, env, pc, req, res, calls, upstream, responseData, threw,
          jsonCalled, sendFileErr>>

\* ------------------------------------------------------------------ bounds
MaxDescLen == 3
MaxOutLen == 2
MaxPathLen == 5

\* ------------------------------------------------------- JavaScript values
Undef == [t |-> "undefined"]
Null == [t |-> "null"]
Str(s) == [t |-> "string", s |-> s]
Num(n) == [t |-> "number", n |-> n]
Bool(b) == [t |-> "boolean", b |-> b]
Arr(a) == [t |-> "array", a |-> a]
Obj(f) == [t |-> "object", f |-> f]

NoProps == [k \in {} |-> Undef]

\* typeof v
TypeOf(v) ==
    CASE v.t = "array" -> "object"
      [] v.t = "null" -> "object"
      [] OTHER -> v.t

\* ToBoolean(v), as used by !v, && and ||
Truthy(v) ==
    CASE v.t = "undefined" -> FALSE
      [] v.t = "null" -> FALSE
      [] v.t = "boolean" -> v.b
      [] v.t = "number" -> v.n # 0
      [] v.t = "string" -> v.s # <<>>
      [] OTHER -> TRUE

\* v.k on a value that is neither null nor undefined
Get(v, k) ==
    IF v.t = "object" /\ k \in DOMAIN v.f THEN v.f[k] ELSE Undef

\* v?.k
GetOpt(v, k) ==
    IF v.t \in {"null", "undefined"} THEN Undef ELSE Get(v, k)

\* v.k throws a TypeError
GetThrows(v) == v.t \in {"null", "undefined"}

Digit(d) ==
    CASE d = 0 -> "0" [] d = 1 -> "1" [] d = 2 -> "2" [] d = 3 -> "3"
      [] d = 4 -> "4" [] d = 5 -> "5" [] d = 6 -> "6" [] d = 7 -> "7"
      [] d = 8 -> "8" [] d = 9 -> "9"

RECURSIVE Digits(_)
Digits(n) == IF n < 10 THEN <<Digit(n)>> ELSE Digits(n \div 10) \o <<Digit(n % 10)>>

\* `${v}` throws: an object whose own toString is not callable (no JSON
\* value is) has no primitive value; an array joins its elements.
RECURSIVE RenderThrows(_)
RenderThrows(v) ==
    CASE v.t = "object" -> "toString" \in DOMAIN v.f
      [] v.t = "array" -> \E i \in 1..Len(v.a) : RenderThrows(v.a[i])
      [] OTHER -> FALSE

\* `${v}`
RECURSIVE Render(_)
RECURSIVE JoinFrom(_, _)
Render(v) ==
    CASE v.t = "undefined" -> <<"undefined">>
      [] v.t = "null" -> <<"null">>
      [] v.t = "boolean" -> IF v.b THEN <<"true">> ELSE <<"false">>
      [] v.t = "number" -> Digits(v.n)
      [] v.t = "string" -> v.s
      [] v.t = "array" -> JoinFrom(v.a, 1)
      [] OTHER -> <<"[object Object]">>
JoinFrom(a, i) ==
    IF i > Len(a) THEN <<>>
    ELSE (IF i > 1 THEN <<",">> ELSE <<>>)
         \o (IF a[i].t \in {"null", "undefined"} THEN <<>> ELSE Render(a[i]))
         \o JoinFrom(a, i + 1)

\* s.startsWith(p)
StartsWith(s, p) == Len(s) >= Len(p) /\ SubSeq(s, 1, Len(p)) = p

\* s.includes(p)
Includes(s, p) ==
    \E i \in 1..(Len(s) - Len(p) + 1) : SubSeq(s, i, i + Len(p) - 1) = p

WhiteSpace == {" ", "\t", "\n"}

\* s.trim()
RECURSIVE TrimStart(_)
TrimStart(s) ==
    IF s # <<>> /\ Head(s) \in WhiteSpace THEN TrimStart(Tail(s)) ELSE s
RECURSIVE TrimEnd(_)
TrimEnd(s) ==
    IF s # <<>> /\ s[Len(s)] \in WhiteSpace THEN TrimEnd(SubSeq(s, 1, Len(s) - 1)) ELSE s
Trim(s) == TrimEnd(TrimStart(s))

\* JSON.stringify of a string: quoted, with " and line feed escaped
RECURSIVE Escape(_)
Escape(s) ==
    IF s = <<>> THEN <<>>
    ELSE (CASE Head(s) = "\"" -> <<"\\", "\"">>
            [] Head(s) = "\n" -> <<"\\", "n">>
            [] OTHER -> <<Head(s)>>) \o Escape(Tail(s))
Quote(s) == <<"\"">> \o Escape(s) \o <<"\"">>

\* ------------------------------------------------------------ input domains
Strings(alphabet, n) == UNION {[1..k -> alphabet] : k \in 0..n}

DescChars == {" ", "\""}

Descriptions ==
    {Undef, Null, Num(0), Num(7), Bool(TRUE), Arr(<<>>), Obj(NoProps)}
        \cup {Str(s) : s \in Strings(DescChars, MaxDescLen)}

\* what express.json() leaves in req.body
RequestBodies ==
    {Obj(NoProps)} \cup {Obj([description |-> d]) : d \in Descriptions \ {Undef}}

\* process.env.REPLICATE_API_TOKEN
Tokens == {Undef, Str(<<>>), Str(<<"r", "8">>)}

Variants == {"server.js", "part_000"}

UrlX == <<"h", "t", "t", "p", ":", "/", "/", "x">>
NotAUrl == <<"n", "o", "t", "-", "a", "-", "u", "r", "l">>
BadPrompt == <<"b", "a", "d", " ", "p", "r", "o", "m", "p", "t">>
NoPrimitive == Obj([toString |-> Num(1)])

OutputElems == {Str(UrlX), Str(NotAUrl), Num(1), NoPrimitive}
OutputArrays == {Arr(a) : a \in Strings(OutputElems, MaxOutLen)}
Outputs ==
    {Undef, Null, Num(0), Obj(NoProps), Str(<<>>), Str(UrlX), Str(NotAUrl),
     Str(<<"h", "t", "t">>)} \cup OutputArrays
StatusFields ==
    {Undef, Str(<<"succeeded">>), Str(<<"processing">>), Str(<<"failed">>), NoPrimitive}
ErrorFields == {Undef, Null, Str(<<>>), Str(BadPrompt), NoPrimitive}
DetailFields == {Undef, Str(<<"n", "f">>), Arr(<<Obj(NoProps)>>)}

\* a field that is Undef is absent from the object
Fields(f) == [k \in {k \in DOMAIN f : f[k] # Undef} |-> f[k]]

PredictionBodies ==
    {Obj(Fields([status |-> s, output |-> o])) : s \in StatusFields, o \in Outputs}
ErrorBodies ==
    {Obj(Fields([error |-> e, detail |-> d])) : e \in ErrorFields, d \in DetailFields}

\* what the provider's body parses to
JsonBodies ==
    {Null, Num(0), Str(UrlX), Arr(<<Str(UrlX)>>),
     Obj([status |-> Str(<<"failed">>), error |-> Str(BadPrompt)])}
        \cup PredictionBodies \cup ErrorBodies

UpstreamStatuses == {200, 404, 500}
ContentTypes ==
    {Null, Str(<<"text/html">>), Str(<<"application/json">>),
     Str(<<"application/json", "; charset=utf-8">>)}
UpstreamResponses == [status : UpstreamStatuses, contentType : ContentTypes]

PathChars == {"/", "a", "p", "i"}
Paths == {p \in Strings(PathChars, MaxPathLen) : p # <<>> /\ p[1] = "/"}
FsEntries == {"file", "dir", "dirWithIndex", "none"}

\* ------------------------------------------------------------- responses
NoBody == [k |-> "none"]
JsonBody(v) == [k |-> "json", v |-> v]
TextBody(s) == [k |-> "text", s |-> s]
FileBody(f) == [k |-> "file", f |-> f]

\* a fresh response object: nothing sent, statusCode 200
FreshRes == [sent |-> 0, status |-> 200, body |-> NoBody]

\* res.status(code).json(v), res.status(code).send(text), a file streamed
Send(r, code, body) == [sent |-> r.sent + 1, status |-> code, body |-> body]

ErrorJson(msg) == JsonBody(Obj([error |-> Str(msg)]))

NoUpstream == [status |-> 0, contentType |-> Null]

\* ---------------------------------------------- POST /api/generate-image
ApiPath == <<"/api/generate-image">>

\* the validation without its trim test
InvalidDescriptionUntrimmed(description) ==
    ~Truthy(description) \/ TypeOf(description) # "string"

InvalidDescription(description) ==
    \/ ~Truthy(description)
    \/ TypeOf(description) # "string"
    \/ Len(Trim(description.s)) = 0

\* the prompt taken from the description as received
TrimmedDescriptionAsReceived(description) == description.s

TrimmedDescription(description) == Trim(description.s)

\* the token test as a comparison with undefined
MissingTokenUndefinedOnly(replicateApiToken) == replicateApiToken.t = "undefined"

MissingToken(replicateApiToken) == ~Truthy(replicateApiToken)

REPLICATE_API_URL ==
    <<"https://api.replicate.com/v1/models/black-forest-labs/flux-1.1-pro/predictions">>

RequestBody(trimmedDescription) ==
    Obj([input |-> Obj([prompt |-> Str(trimmedDescription),
                        prompt_upsampling |-> Bool(TRUE)])])

\* JSON.stringify(requestBody)
Stringify(requestBody) ==
    <<"{\"input\":{\"prompt\":">>
        \o Quote(requestBody.f.input.f.prompt.s)
        \o <<",\"prompt_upsampling\":">>
        \o Render(requestBody.f.input.f.prompt_upsampling)
        \o <<"}}">>

Authorization(v, replicateApiToken) ==
    IF v = "server.js" THEN <<"Bearer ">> \o replicateApiToken.s
    ELSE <<"Token ">> \o replicateApiToken.s

FetchHeaders(v, replicateApiToken) ==
    IF v = "server.js"
    THEN ("Authorization" :> Authorization(v, replicateApiToken))
            @@ ("Content-Type" :> <<"application/json">>)
            @@ ("Prefer" :> <<"wait">>)
    ELSE ("Authorization" :> Authorization(v, replicateApiToken))
            @@ ("Content-Type" :> <<"application/json">>)
            @@ ("Prefer" :> <<"wait">>)
            @@ ("User-Agent" :> <<"Mozilla/5.0 (Windows NT 10.0; Win64; x64)">>)
            @@ ("Accept" :> <<"application/json">>)

FetchCall(v, replicateApiToken, trimmedDescription) ==
    [url |-> REPLICATE_API_URL,
     method |-> "POST",
     headers |-> FetchHeaders(v, replicateApiToken),
     body |-> Stringify(RequestBody(trimmedDescription))]

\* replicateResponse.ok
Ok(r) == r.status >= 200 /\ r.status < 300

\* the content-type test as a test for a missing header only
NotJsonTypedHeaderAbsent(r) == r.contentType = Null

\* replicateResponse.headers.get('content-type')?.includes('application/json') !== true
NotJsonTyped(r) ==
    ~(r.contentType.t = "string" /\ Includes(r.contentType.s, <<"application/json">>))

ConnectionFailed(r) ==
    ErrorJson(<<"Image service connection failed with status: ">> \o Digits(r.status))

\* the detail chain with its first two operands swapped
ErrorDetailDetailFirst(data, r) ==
    IF Truthy(GetOpt(data, "detail")) THEN GetOpt(data, "detail")
    ELSE IF Truthy(GetOpt(data, "error")) THEN GetOpt(data, "error")
    ELSE Str(<<"Replicate API Status: ">> \o Digits(r.status))

\* responseData?.error || responseData?.detail || `Replicate API Status: ${status}`
ErrorDetail(data, r) ==
    IF Truthy(GetOpt(data, "error")) THEN GetOpt(data, "error")
    ELSE IF Truthy(GetOpt(data, "detail")) THEN GetOpt(data, "detail")
    ELSE Str(<<"Replicate API Status: ">> \o Digits(r.status))

\* the status test without "processing"
StatusEligibleSucceededOnly(status) == status = Str(<<"succeeded">>)

\* the status test that guards extraction
StatusEligible(status) ==
    status = Str(<<"succeeded">>) \/ status = Str(<<"processing">>)

\* imageUrlToSend after the extraction block
ImageUrlToSend(data) ==
    LET output == Get(data, "output") IN
    IF StatusEligible(Get(data, "status")) /\ Truthy(output)
    THEN IF output.t = "array" /\ Len(output.a) > 0 THEN output.a[1]
         ELSE IF TypeOf(output) = "string" THEN output
         ELSE Null
    ELSE Null

\* the debug log inside the array branch renders output[0]
ExtractionLogThrows(data) ==
    LET output == Get(data, "output") IN
    /\ StatusEligible(Get(data, "status")) /\ Truthy(output)
    /\ output.t = "array" /\ Len(output.a) > 0
    /\ RenderThrows(output.a[1])

\* the final check as a plain truthiness test
ValidUrlTruthy(imageUrlToSend) == Truthy(imageUrlToSend)

\* the final check
ValidUrl(imageUrlToSend) ==
    TypeOf(imageUrlToSend) = "string" /\ StartsWith(imageUrlToSend.s, <<"h", "t", "t", "p">>)

FailureMessage(data) ==
    <<"Image service returned status '">> \o Render(Get(data, "status"))
        \o <<"' or did not provide a valid image URL.">>

\* an outcome of the try block: the response, and whether the catch block ran
Reply(code, body) == [threw |-> FALSE, code |-> code, body |-> body]
\* a catch block that reports a gateway error
CaughtAs502 ==
    [threw |-> TRUE, code |-> 502,
     body |-> ErrorJson(<<"Internal server error during image generation call.">>)]

Caught ==
    [threw |-> TRUE, code |-> 500,
     body |-> ErrorJson(<<"Internal server error during image generation call.">>)]

\* the try block from the parsed body on
AfterJson(r, data) ==
    IF ~Ok(r)
    THEN LET errorDetail == ErrorDetail(data, r) IN
         IF RenderThrows(errorDetail) THEN Caught
         ELSE Reply(502, ErrorJson(<<"Failed to generate image. ">> \o Render(errorDetail)))
    ELSE IF GetThrows(data) \/ RenderThrows(Get(data, "status")) THEN Caught
    ELSE IF ExtractionLogThrows(data) THEN Caught
    ELSE IF ValidUrl(ImageUrlToSend(data))
         THEN Reply(200, JsonBody(Obj([imageUrl |-> ImageUrlToSend(data)])))
         ELSE Reply(502, ErrorJson(FailureMessage(data)))

\* ------------------------------------------------- static files, fallback
IndexPath == <<"/", "index.html">>

EndsWithSlash(path) == path[Len(path)] = "/"

\* the static middleware mounted after the fallback route
StaticAnswersNever(path, entry) == FALSE

\* express.static answers the request itself (otherwise it calls next())
StaticAnswers(path, entry) ==
    \/ entry = "file" /\ ~EndsWithSlash(path)
    \/ entry \in {"dir", "dirWithIndex"} /\ ~EndsWithSlash(path)
    \/ entry = "dirWithIndex" /\ EndsWithSlash(path)

StaticReply(path, entry) ==
    IF entry = "file" THEN Reply(200, FileBody(path))
    ELSE IF ~EndsWithSlash(path) THEN Reply(301, TextBody(<<"Redirecting to ">> \o path \o <<"/">>))
    ELSE Reply(200, FileBody(path \o <<"index.html">>))

\* the fallback route's pattern /^(?!\/api).*/
FallbackMatches(path) == ~StartsWith(path, <<"/", "a", "p", "i">>)

\* ------------------------------------------------------------------ actions
Init ==
    /\ variant \in Variants
    /\ env \in Tokens
    /\ pc = "idle"
    /\ req = [method |-> "none"]
    /\ res = FreshRes
    /\ calls = <<>>
    /\ upstream = NoUpstream
    /\ responseData = Undef
    /\ threw = FALSE
    /\ jsonCalled = FALSE
    /\ sendFileErr = FALSE

Finish(out) ==
    /\ res' = Send(res, out.code, out.body)
    /\ threw' = out.threw
    /\ pc' = "done"

\* the handler up to its first await
PostGenerateImage ==
    /\ pc = "idle"
    /\ \E body \in RequestBodies :
        LET description == Get(body, "description") IN
        /\ req' = [method |-> "POST", path |-> ApiPath, body |-> body]
        /\ IF InvalidDescription(description)
           THEN /\ Finish(Reply(400, ErrorJson(<<"Missing or invalid image description.">>)))
                /\ UNCHANGED calls
           ELSE IF MissingToken(env)
           THEN /\ Finish(Reply(500, ErrorJson(<<"Image generation service is not configured correctly.">>)))
                /\ UNCHANGED calls
           ELSE /\ calls' = Append(calls, FetchCall(variant, env, TrimmedDescription(description)))
                /\ pc' = "fetch"
                /\ UNCHANGED <<res, threw>>
    /\ UNCHANGED <<variant, env, upstream, responseData, jsonCalled, sendFileErr>>

\* a rejected fetch that is tried again
FetchRejectRetry ==
    /\ pc = "fetch"
    /\ calls' = Append(calls, calls[Len(calls)])
    /\ UNCHANGED <<variant, env, pc, req, res, upstream, responseData, threw,
                   jsonCalled, sendFileErr>>

\* fetch rejects: the request could not be sent or no response arrived
FetchReject ==
    /\ pc = "fetch"
    /\ Finish(Caught)
    /\ UNCHANGED <<variant, env, req, calls, upstream, responseData, jsonCalled, sendFileErr>>

\* fetch resolves with the provider's status line and headers
FetchResolve ==
    /\ pc = "fetch"
    /\ \E r \in UpstreamResponses :
        /\ upstream' = r
        /\ IF ~Ok(r) /\ NotJsonTyped(r)
           THEN IF variant = "server.js"
                THEN Finish(Reply(502, ConnectionFailed(r))) /\ UNCHANGED jsonCalled
                ELSE pc' = "text" /\ UNCHANGED <<res, threw, jsonCalled>>
           ELSE pc' = "json" /\ jsonCalled' = TRUE /\ UNCHANGED <<res, threw>>
    /\ UNCHANGED <<variant, env, req, calls, responseData, sendFileErr>>

\* part_000 only: replicateResponse.text() settles
TextSettle ==
    /\ pc = "text"
    /\ \E read \in BOOLEAN :
        Finish(IF read THEN Reply(502, ConnectionFailed(upstream)) ELSE Caught)
    /\ UNCHANGED <<variant, env, req, calls, upstream, responseData, jsonCalled, sendFileErr>>

\* replicateResponse.json() rejects: the body is not JSON or could not be read
JsonReject ==
    /\ pc = "json"
    /\ Finish(Caught)
    /\ UNCHANGED <<variant, env, req, calls, upstream, responseData, jsonCalled, sendFileErr>>

\* replicateResponse.json() resolves and the handler runs to its end
JsonResolve ==
    /\ pc = "json"
    /\ \E data \in JsonBodies :
        /\ responseData' = data
        /\ Finish(AfterJson(upstream, data))
    /\ UNCHANGED <<variant, env, req, calls, upstream, jsonCalled, sendFileErr>>

\* GET: the static middleware, then the fallback route or no route at all
GetPath ==
    /\ pc = "idle"
    /\ \E path \in Paths, entry \in FsEntries :
        /\ req' = [method |-> "GET", path |-> path, fs |-> entry]
        /\ IF StaticAnswers(path, entry) THEN Finish(StaticReply(path, entry))
           ELSE IF FallbackMatches(path) THEN pc' = "sendFile" /\ UNCHANGED <<res, threw>>
           ELSE Finish(Reply(404, TextBody(<<"Cannot GET ">> \o path)))
    /\ UNCHANGED <<variant, env, calls, upstream, responseData, jsonCalled, sendFileErr>>

\* res.sendFile(indexPath, callback) completes
SendFileDone ==
    /\ pc = "sendFile"
    /\ \E err \in BOOLEAN :
        /\ sendFileErr' = err
        /\ Finish(IF err THEN Reply(500, TextBody(<<"Error loading application.">>))
                  ELSE Reply(200, FileBody(IndexPath)))
    /\ UNCHANGED <<variant, env, req, calls, upstream, responseData, jsonCalled>>

\* the exchange is over; the server waits for the next request
NextRequest ==
    /\ pc = "done"
    /\ pc' = "idle"
    /\ req' = [method |-> "none"]
    /\ res' = FreshRes
    /\ calls' = <<>>
    /\ upstream' = NoUpstream
    /\ responseData' = Undef
    /\ threw' = FALSE
    /\ jsonCalled' = FALSE
    /\ sendFileErr' = FALSE
    /\ UNCHANGED <<variant, env>>

Next ==
    \/ PostGenerateImage
    \/ FetchReject
    \/ FetchResolve
    \/ TextSettle
    \/ JsonReject
    \/ JsonResolve
    \/ GetPath
    \/ SendFileDone
    \/ NextRequest

Spec == Init /\ [][Next]_vars

\* ------------------------------------------------------------------ claims
IsPost == req.method = "POST"
IsGet == req.method = "GET"
Description == Get(req.body, "description")

Responded(code, body) == pc = "done" /\ res = [sent |-> 1, status |-> code, body |-> body]

WhiteSpaceOnly(s) == \A i \in 1..Len(s) : s[i] \in {" ", "\t", "\n"}

\* the description is missing, not a string, empty or whitespace-only
BadDescription ==
    \/ "description" \notin DOMAIN req.body.f
    \/ Description.t # "string"
    \/ WhiteSpaceOnly(Description.s)

\* the credential is absent from the process configuration
NoCredential == env.t = "undefined" \/ env = Str(<<>>)

\* C1: a POST whose description is missing, not a string, empty or
\* whitespace-only is answered 400 { error: "Missing or invalid image
\* description." } and the provider is never called, with or without a
\* credential.
C1_InvalidDescription400 ==
    (IsPost /\ BadDescription) =>
        /\ Responded(400, JsonBody(Obj([error |-> Str(<<"Missing or invalid image description.">>)])))
        /\ calls = <<>>
        /\ upstream = NoUpstream

C1_Witness ==
    /\ IsPost /\ ~NoCredential
    /\ Description = Str(<<" ", " ">>)
    /\ res.status = 400 /\ res.sent = 1

\* C2: a POST with a valid description handled while the credential is
\* absent is answered 500 { error: "Image generation service is not
\* configured correctly." } and the provider is never called.
C2_MissingCredential500 ==
    (IsPost /\ ~BadDescription /\ NoCredential) =>
        /\ Responded(500, JsonBody(Obj([error |-> Str(<<"Image generation service is not configured correctly.">>)])))
        /\ calls = <<>>
        /\ upstream = NoUpstream

C2_Witness ==
    /\ IsPost /\ env = Undef
    /\ Description = Str(<<" ", "\"">>)
    /\ res.status = 500 /\ res.sent = 1

InternalError ==
    JsonBody(Obj([error |-> Str(<<"Internal server error during image generation call.">>)]))

\* the provider answered and its body was parsed
Parsed == IsPost /\ pc = "done" /\ upstream # NoUpstream /\ responseData # Undef
Parsed2xx == Parsed /\ upstream.status \in 200..299
ParsedNon2xx == Parsed /\ upstream.status \notin 200..299

Status == Get(responseData, "status")
Output == Get(responseData, "output")
Http == <<"h", "t", "t", "p">>

\* the first element of a non-empty array output, or a string output itself
HasCandidate == (Output.t = "array" /\ Output.a # <<>>) \/ Output.t = "string"
Candidate == IF Output.t = "array" THEN Output.a[1] ELSE Output

Extractable ==
    /\ Status \in {Str(<<"succeeded">>), Str(<<"processing">>)}
    /\ Output # Undef
    /\ HasCandidate
    /\ Candidate.t = "string"
    /\ Len(Candidate.s) >= 4 /\ SubSeq(Candidate.s, 1, 4) = Http

\* a 502 whose message embeds the observed status value
Failure502EmbedsStatus ==
    /\ pc = "done" /\ res.sent = 1 /\ res.status = 502
    /\ res.body.k = "json"
    /\ DOMAIN res.body.v.f = {"error"}
    /\ res.body.v.f.error.t = "string"
    /\ Includes(res.body.v.f.error.s, Render(Status))

\* the answer to the string form is the answer to the one-element array form
StringFormAsArrayForm ==
    Output.t = "string" =>
        LET alt == AfterJson(upstream, [responseData EXCEPT !.f.output = Arr(<<Output>>)]) IN
        res.status = alt.code /\ res.body = alt.body

\* the body is null, or a value the handler turns into text has no text form
Unrenderable ==
    \/ responseData = Null
    \/ RenderThrows(Status)
    \/ /\ Status \in {Str(<<"succeeded">>), Str(<<"processing">>)}
       /\ Output.t = "array" /\ Output.a # <<>>
       /\ RenderThrows(Output.a[1])

C3_Outcome ==
    IF Extractable
    THEN Responded(200, JsonBody(Obj([imageUrl |-> Candidate])))
    ELSE Failure502EmbedsStatus

\* C3 as stated: for every 2xx response with a JSON body the answer is
\* 200 { imageUrl: c } exactly when status is "succeeded" or "processing",
\* output is present and the candidate is a string starting with "http",
\* and 502 embedding the status otherwise; the string form of output is
\* answered like the one-element array form.
C3_Original == Parsed2xx => (C3_Outcome /\ StringFormAsArrayForm)

\* C3 amended: the same for every 2xx response whose JSON body is not null
\* and whose status and first array element have a text form; a null body
\* or a value without text form is answered 500 with the internal-error
\* body.
C3_Amended ==
    /\ (Parsed2xx /\ ~Unrenderable) => (C3_Outcome /\ StringFormAsArrayForm)
    /\ (Parsed2xx /\ Unrenderable) => Responded(500, InternalError)

C3_Witness ==
    /\ Parsed2xx
    /\ Status = Str(<<"processing">>)
    /\ Output = Arr(<<Str(UrlX), Str(NotAUrl)>>)
    /\ res.status = 200

RECURSIVE Unescape(_)
Unescape(s) ==
    IF s = <<>> THEN <<>>
    ELSE IF s[1] = "\\"
         THEN <<IF s[2] = "n" THEN "\n" ELSE s[2]>> \o Unescape(SubSeq(s, 3, Len(s)))
         ELSE <<s[1]>> \o Unescape(Tail(s))

\* t is s without its leading and trailing whitespace
IsTrimOf(t, s) ==
    \E i \in 1..(Len(s) + 1), j \in 0..Len(s) :
        /\ t = SubSeq(s, i, j)
        /\ \A k \in 1..Len(s) : (k < i \/ k > j) => s[k] \in {" ", "\t", "\n"}
        /\ t # <<>> => (t[1] \notin {" ", "\t", "\n"} /\ t[Len(t)] \notin {" ", "\t", "\n"})

\* the text is the JSON of { input: { prompt: p, prompt_upsampling: true } }
\* for a p that is the trimmed description
IsRequestJson(text) ==
    LET n == Len(text) IN
    /\ n >= 6
    /\ text[1] = "{\"input\":{\"prompt\":"
    /\ text[2] = "\"" /\ text[n - 3] = "\""
    /\ text[n - 2] = ",\"prompt_upsampling\":"
    /\ text[n - 1] = "true"
    /\ text[n] = "}}"
    /\ IsTrimOf(Unescape(SubSeq(text, 3, n - 4)), Description.s)

CallWellFormed(c) ==
    /\ c.method = "POST"
    /\ c.url = <<"https://api.replicate.com/v1/models/black-forest-labs/flux-1.1-pro/predictions">>
    /\ \E scheme \in {"Bearer ", "Token "} : c.headers["Authorization"] = <<scheme>> \o env.s
    /\ env.s # <<>>
    /\ c.headers["Prefer"] = <<"wait">>
    /\ IsRequestJson(c.body)

\* C4: every outbound call is a POST to the fixed endpoint with the
\* credential as the token of its Authorization header, the Prefer: wait
\* header, and the JSON body { input: { prompt: <trimmed description>,
\* prompt_upsampling: true } }.
C4_OutboundCallShape ==
    \A i \in 1..Len(calls) : IsPost /\ CallWellFormed(calls[i])

C4_Witness ==
    /\ pc = "fetch" /\ Len(calls) = 1
    /\ variant = "part_000"
    /\ Description = Str(<<" ", "\"", " ">>)
    /\ calls[1].body = <<"{\"input\":{\"prompt\":", "\"", "\\", "\"", "\"",
                         ",\"prompt_upsampling\":", "true", "}}">>

\* the detail: the error field, else the detail field, else the status code
ClaimedDetail ==
    LET e == IF responseData.t = "object" /\ "error" \in DOMAIN responseData.f
             THEN responseData.f.error ELSE Undef
        d == IF responseData.t = "object" /\ "detail" \in DOMAIN responseData.f
             THEN responseData.f.detail ELSE Undef
    IN  IF Truthy(e) THEN e
        ELSE IF Truthy(d) THEN d
        ELSE Str(<<"Replicate API Status: ">> \o Digits(upstream.status))

C5_Outcome ==
    /\ Responded(502, JsonBody(Obj([error |->
            Str(<<"Failed to generate image. ">> \o Render(ClaimedDetail))])))
    /\ Get(responseData, "error") = Str(BadPrompt) =>
            Includes(res.body.v.f.error.s, BadPrompt)

\* C5 as stated: a non-2xx response with a JSON body is answered 502
\* "Failed to generate image. {detail}", detail from error, else detail,
\* else the status code; { error: "bad prompt" } gives a message
\* containing "bad prompt".
C5_Original == ParsedNon2xx => C5_Outcome

\* C5 amended: the same whenever the chosen detail has a text form; a
\* detail without one is answered 500 with the internal-error body.
C5_Amended ==
    /\ (ParsedNon2xx /\ ~RenderThrows(ClaimedDetail)) => C5_Outcome
    /\ (ParsedNon2xx /\ RenderThrows(ClaimedDetail)) => Responded(500, InternalError)

C5_Witness ==
    /\ ParsedNon2xx
    /\ responseData = Obj([error |-> Str(BadPrompt), detail |-> Str(<<"n", "f">>)])
    /\ res.status = 502

\* the provider answered non-2xx and the content type is absent or does not
\* name application/json
Non2xxNotJson ==
    /\ IsPost /\ upstream # NoUpstream
    /\ upstream.status \notin 200..299
    /\ \/ upstream.contentType = Null
       \/ \A i \in 1..Len(upstream.contentType.s) :
              upstream.contentType.s[i] # "application/json"

ConnectionFailure502 ==
    Responded(502, JsonBody(Obj([error |->
        Str(<<"Image service connection failed with status: ">> \o Digits(upstream.status))])))

\* C6 as stated: a non-2xx response that is not JSON-typed is always
\* answered 502 with the connection-failure message naming the status code,
\* and its body is never parsed as JSON.
C6_Original ==
    Non2xxNotJson =>
        /\ ~jsonCalled /\ responseData = Undef
        /\ pc = "done" => ConnectionFailure502

\* C6 amended: the same, except that in the variant that reads the raw body
\* as text for its log a failure of that read is answered 500 with the
\* internal-error body; the body is never parsed as JSON.
C6_Amended ==
    Non2xxNotJson =>
        /\ ~jsonCalled /\ responseData = Undef
        /\ pc \in {"done", "text"}
        /\ pc = "text" => variant = "part_000"
        /\ (pc = "done" /\ ~threw) => ConnectionFailure502
        /\ (pc = "done" /\ threw) => (variant = "part_000" /\ Responded(500, InternalError))

C6_Witness ==
    /\ Non2xxNotJson /\ pc = "done"
    /\ upstream = [status |-> 404, contentType |-> Str(<<"text/html">>)]
    /\ res.status = 502

\* an exception was raised in the try block: fetch rejected, the body could
\* not be read or parsed, or the parsed 2xx body is null
ExceptionRaised ==
    /\ IsPost /\ pc = "done" /\ calls # <<>>
    /\ \/ threw
       \/ upstream = NoUpstream
       \/ jsonCalled /\ responseData = Undef
       \/ upstream.status \in 200..299 /\ responseData = Null

\* C7: every exception raised during the outbound call or while parsing the
\* body is answered 500 { error: "Internal server error during image
\* generation call." }, once; none gives a 200 or a 502.
C7_ExceptionsAre500 == ExceptionRaised => Responded(500, InternalError)

C7_Witness ==
    /\ ExceptionRaised
    /\ upstream.status = 200 /\ jsonCalled /\ responseData = Undef
    /\ res.status = 500

\* C8: at most one outbound call is made per request, and once it is made
\* no step makes another or awaits a fetch again before the request is over.
C8_NoRetry ==
    [][/\ Len(calls') <= 1
       /\ calls # <<>> => \/ calls' = calls /\ pc' # "fetch"
                          \/ calls' = <<>> /\ pc' = "idle" /\ pc = "done"]_vars

C8_Witness ==
    /\ pc = "done" /\ Len(calls) = 1 /\ threw
    /\ upstream = NoUpstream
    /\ res.sent = 1

\* GET of a path that does not start with /api
NonApiGet ==
    /\ IsGet /\ pc = "done"
    /\ ~(Len(req.path) >= 4 /\ SubSeq(req.path, 1, 4) = <<"/", "a", "p", "i">>)

EntryPageOr500 ==
    \/ ~sendFileErr /\ Responded(200, FileBody(<<"/", "index.html">>))
    \/ sendFileErr /\ Responded(500, TextBody(<<"Error loading application.">>))

\* C9 as stated: a GET of any path not starting with /api is answered 200
\* with the entry page whether or not the path exists as a static asset,
\* and 500 "Error loading application." only when the entry page cannot be
\* read.
C9_Original == NonApiGet => EntryPageOr500

\* what the served directory holds at the requested path keeps the static
\* middleware from answering
NotServedStatically ==
    \/ req.fs = "none"
    \/ req.fs = "dir" /\ req.path[Len(req.path)] = "/"
    \/ req.fs = "file" /\ req.path[Len(req.path)] = "/"

\* C9 amended: a GET of a path not starting with /api that the static
\* middleware does not answer gets the entry page with 200, or 500 "Error
\* loading application." exactly when sending it fails; a path that exists
\* as a static file is answered 200 with that file.
C9_Amended ==
    /\ (NonApiGet /\ NotServedStatically) => EntryPageOr500
    /\ (NonApiGet /\ req.fs = "file" /\ req.path[Len(req.path)] # "/") =>
            Responded(200, FileBody(req.path))

C9_Witness ==
    /\ NonApiGet /\ NotServedStatically
    /\ req.path = <<"/", "a", "/", "p">>
    /\ res.status = 200 /\ res.body = FileBody(<<"/", "index.html">>)

IsImageUrlBody(b) ==
    /\ b.k = "json" /\ b.v.t = "object"
    /\ DOMAIN b.v.f = {"imageUrl"}
    /\ b.v.f.imageUrl.t = "string"

IsErrorBody(b) ==
    /\ b.k = "json" /\ b.v.t = "object"
    /\ DOMAIN b.v.f = {"error"}
    /\ b.v.f.error.t = "string"

\* C10: every POST gets exactly one response, on every path: its status is
\* 200, 400, 500 or 502, its body is { imageUrl: <string> } if and only if
\* the status is 200, and otherwise an object with the single string field
\* error; nothing is sent while the handler awaits.
C10_ExactlyOneResponse ==
    IsPost =>
        /\ pc \in {"fetch", "text", "json", "done"}
        /\ pc # "done" => res.sent = 0
        /\ pc = "done" =>
            /\ res.sent = 1
            /\ res.status \in {200, 400, 500, 502}
            /\ res.status = 200 <=> IsImageUrlBody(res.body)
            /\ res.status # 200 => IsErrorBody(res.body)

C10_Witness ==
    /\ IsPost /\ pc = "done"
    /\ res.status = 200
    /\ res.body = JsonBody(Obj([imageUrl |-> Str(UrlX)]))
    /\ Output = Str(UrlX)

====
